---- MODULE Spec2Model ----
(***************************************************************************)
(* Session / identity management of Telescope                              *)
(* (src/src/web/services/auth/identity.rs, src/src/main.rs).               *)
(*                                                                         *)
(* One client holds the "telescope_auth" cookie.  Requests carry a copy of *)
(* it, run the extractors and Identity::identity, and the identity         *)
(* middleware writes the request's identity item back with the response.   *)
(* The Discord token endpoint is a collaborator: every exchange may be     *)
(* accepted or rejected.                                                   *)
(***************************************************************************)
EXTENDS Integers, Sequences, FiniteSets, TLC

\* ------------------------------------------------------------------ bounds
MaxTime == 3          \* the clock runs over 0..MaxTime
MaxIssued == 4        \* the token endpoint issues triples numbered up to this
MaxHandlerCalls == 2  \* calls a handler makes on its Identity object
MaxRestarts == 1      \* restarts of the server process
MaxAge == 2           \* max_age_time(days(1)): one day, in steps of the clock
MaxDate == 3          \* the dates of a meeting form run over 0..MaxDate

Req == {"r1", "r2"}   \* requests of the one client, possibly concurrent

VARIABLES
    now,           \* wall clock
    clientCookie,  \* the cookie in the client's store: NoneV or SomeV(json)
    attrs,         \* of the client's cookie: the key that sealed it, its expiry
    cookie_key,    \* the key the running server process generated at its start
    issued,        \* Discord triples the token endpoint has issued so far
    req,           \* per request: position, identity item, locals, history
    meeting,       \* the meeting in the RCOS database: NoneV or SomeV(meeting)
    edit           \* the request to the meeting-edit service: position, locals

vars == <<now, clientCookie, attrs, cookie_key, issued, req, meeting, edit>>

\* ------------------------------------------------------------- Option<T>
NoneV == [some |-> FALSE]
SomeV(x) == [some |-> TRUE, val |-> x]

\* Result<T, TelescopeError>
Ok(x) == [ok |-> TRUE, val |-> x]
Err(kind) == [ok |-> FALSE, err |-> kind]

\* ------------------------------------------------------ provider identities
GitHubIdentity(t) == [access_token |-> t]

DiscordIdentity(a, r, e) == [access_token |-> a, refresh_token |-> r, expiration |-> e]

\* The triple number n of the token endpoint, expiring at e.
Triple(n, e) == DiscordIdentity(n, n, e)

\* enum RootIdentity { GitHub(GitHubIdentity), Discord(DiscordIdentity) }
RootGitHub(g) == [tag |-> "GitHub", val |-> g]
RootDiscord(d) == [tag |-> "Discord", val |-> d]

\* struct AuthenticatedIdentities { root, github, discord }
AuthenticatedIdentities(root, gh, d) == [root |-> root, github |-> gh, discord |-> d]

\* (mutant) the root is also put in the secondary slot of its provider
make_authenticated_cookie_dup(root) ==
    AuthenticatedIdentities(root,
        IF root.tag = "GitHub" THEN SomeV(root.val) ELSE NoneV,
        IF root.tag = "Discord" THEN SomeV(root.val) ELSE NoneV)

\* RootIdentity::make_authenticated_cookie
make_authenticated_cookie(root) == AuthenticatedIdentities(root, NoneV, NoneV)

\* (mutant) only the secondary slot is looked at
get_discord_secondary_only(ids) == ids.discord

\* AuthenticatedIdentities::get_discord
get_discord(ids) ==
    IF ids.root.tag = "Discord" THEN SomeV(ids.root.val)
    ELSE ids.discord

\* AuthenticatedIdentities::get_github
get_github(ids) ==
    IF ids.root.tag = "GitHub" THEN SomeV(ids.root.val)
    ELSE ids.github

\* ---------------------------------------------------------------- codec
\* serde_json::to_string on the derived Serialize: a JSON document, modelled
\* as the tree of its objects.  Enums are externally tagged ({"GitHub": ..}),
\* Option::None is null.
JsonNull == [null |-> TRUE]

SerGitHub(g) == [access_token |-> [str |-> g.access_token]]

SerDiscord(d) ==
    [access_token |-> [num |-> d.access_token],
     refresh_token |-> [num |-> d.refresh_token],
     expiration |-> [num |-> d.expiration]]

SerRoot(root) ==
    IF root.tag = "GitHub" THEN [GitHub |-> SerGitHub(root.val)]
    ELSE [Discord |-> SerDiscord(root.val)]

\* (mutant) the secondary Discord identity is not written out
to_string_no_discord(ids) ==
    [root |-> SerRoot(ids.root),
     github |-> IF ids.github.some THEN SerGitHub(ids.github.val) ELSE JsonNull,
     discord |-> JsonNull]

to_string(ids) ==
    [root |-> SerRoot(ids.root),
     github |-> IF ids.github.some THEN SerGitHub(ids.github.val) ELSE JsonNull,
     discord |-> IF ids.discord.some THEN SerDiscord(ids.discord.val) ELSE JsonNull]

\* serde_json::from_str::<AuthenticatedIdentities>: the derived Deserialize
\* needs an object with a well-formed "root"; an Option field that is absent
\* or null is None; unknown fields are ignored.
IsNull(j) == DOMAIN j = {"null"}

IsGitHubJson(j) ==
    /\ "access_token" \in DOMAIN j
    /\ DOMAIN j.access_token = {"str"}

IsDiscordJson(j) ==
    /\ {"access_token", "refresh_token", "expiration"} \subseteq DOMAIN j
    /\ DOMAIN j.access_token = {"num"}
    /\ DOMAIN j.refresh_token = {"num"}
    /\ DOMAIN j.expiration = {"num"}

DeGitHub(j) == GitHubIdentity(j.access_token.str)

DeDiscord(j) ==
    DiscordIdentity(j.access_token.num, j.refresh_token.num, j.expiration.num)

IsRootJson(j) ==
    \/ DOMAIN j = {"GitHub"} /\ IsGitHubJson(j.GitHub)
    \/ DOMAIN j = {"Discord"} /\ IsDiscordJson(j.Discord)

DeRoot(j) ==
    IF DOMAIN j = {"GitHub"} THEN RootGitHub(DeGitHub(j.GitHub))
    ELSE RootDiscord(DeDiscord(j.Discord))

Absent(j, f) == f \notin DOMAIN j \/ IsNull(j[f])

from_str(j) ==
    IF /\ "root" \in DOMAIN j
       /\ IsRootJson(j.root)
       /\ (Absent(j, "github") \/ IsGitHubJson(j.github))
       /\ (Absent(j, "discord") \/ IsDiscordJson(j.discord))
    THEN Ok(AuthenticatedIdentities(
                DeRoot(j.root),
                IF Absent(j, "github") THEN NoneV ELSE SomeV(DeGitHub(j.github)),
                IF Absent(j, "discord") THEN NoneV ELSE SomeV(DeDiscord(j.discord))))
    ELSE Err("DecodeError")

\* ------------------------------------------------------- token endpoint
\* DiscordIdentity::refresh (oauth2_providers/discord.rs): an unexpired
\* credential is returned unchanged, an expired one is exchanged at the token
\* endpoint for a new (access token, refresh token, expiry) triple.
Expired(d, t) == d.expiration < t

\* The triples the endpoint may answer an accepted exchange with at time t:
\* never issued before, expiring after t: short-lived (expired two steps
\* on) or outliving the clock.
FreshTriples(t) ==
    LET used == {d.access_token : d \in issued}
        n == IF used = {} THEN 1
             ELSE 1 + (CHOOSE m \in used : \A k \in used : k <= m)
    IN  IF n > MaxIssued THEN {}
        ELSE {Triple(n, e) : e \in {t + 1, MaxTime + 1}}

\* ------------------------------------------------------------ per request
InitReq ==
    [pc |-> "idle",
     kind |-> "none",         \* which extractor the route uses
     item |-> [id |-> NoneV, changed |-> FALSE],  \* the request's identity item
     caller |-> "none",       \* who runs Identity::identity
     ids |-> NoneV,           \* the value AuthenticatedIdentities::refresh owns
     ret |-> NoneV,           \* what the last Identity::identity returned
     outcome |-> "none",      \* terminal state of the last Identity::identity
     fault |-> FALSE,         \* the transport identity could not be read
     extracted |-> NoneV,     \* result of the extractor
     username |-> NoneV,      \* result of the last Identity::get_rcos_username
     asked |-> NoneV,         \* the credential whose RCOS username is looked up
     lookup |-> NoneV,        \* what that lookup answered
     status |-> NoneV,        \* status code of the error response, if one
     reads |-> 0,             \* runs of Identity::identity in this request
     ncalls |-> 0,            \* handler calls made
     \* history of the current Identity::identity run
     decodes |-> 0, refreshes |-> 0, saves |-> 0, forgets |-> 0,
     seen |-> NoneV,          \* the identity item when the run began
     decoded |-> NoneV,       \* the value the cookie deserialized to
     saved |-> NoneV,         \* the last value passed to save
     calls |-> << >>,         \* token-endpoint exchanges, by slot
     answers |-> << >>]       \* and whether each was accepted

\* Identity::forget: ActixIdentity::forget clears the identity item.
forget(q) ==
    [q EXCEPT !.item = [id |-> NoneV, changed |-> TRUE],
              !.forgets = @ + 1]

\* (mutant) only the root is serialized into the cookie
save_root_only(q, ids) ==
    [q EXCEPT !.item = [id |-> SomeV(SerRoot(ids.root)), changed |-> TRUE],
              !.saves = @ + 1,
              !.saved = SomeV(ids)]

\* Identity::save: serialize, then ActixIdentity::remember.
save(q, ids) ==
    [q EXCEPT !.item = [id |-> SomeV(to_string(ids)), changed |-> TRUE],
              !.saves = @ + 1,
              !.saved = SomeV(ids)]

\* (mutant) a missing identity reported as an infrastructure fault
authenticated_from_request_ise(q, ret) ==
    [q EXCEPT !.extracted = SomeV(IF ret.some THEN Ok(ret.val)
                                  ELSE Err("InternalServerError")),
              !.pc = "respond"]

\* FromRequest for AuthenticatedIdentities, after identity() returned:
\* .ok_or(TelescopeError::NotAuthenticated)
authenticated_from_request(q, ret) ==
    [q EXCEPT !.extracted = SomeV(IF ret.some THEN Ok(ret.val)
                                  ELSE Err("NotAuthenticated")),
              !.pc = "respond"]

\* (mutant) a linked GitHub account is asked before the root
authenticated_get_rcos_username_github_first(ids) ==
    IF ids.github.some THEN RootGitHub(ids.github.val) ELSE ids.root

\* AuthenticatedIdentities::get_rcos_username: self.root.get_rcos_username();
\* the credential whose lookup is awaited.
authenticated_get_rcos_username(ids) == ids.root

\* Identity::get_rcos_username, after identity() returned.
get_rcos_username(q, ret) ==
    IF ret.some
    THEN [q EXCEPT !.pc = "await_username", !.lookup = NoneV,
                   !.asked = SomeV(authenticated_get_rcos_username(ret.val))]
    ELSE [q EXCEPT !.username = SomeV(Ok(NoneV)), !.asked = NoneV,
                   !.lookup = NoneV, !.pc = "handler"]

\* (mutant) an error of the lookup is turned into "no username"
get_rcos_username_done_swallows(q, res) ==
    [q EXCEPT !.lookup = SomeV(res),
              !.username = SomeV(IF res.ok THEN res ELSE Ok(NoneV)),
              !.pc = "handler"]

\* Identity::get_rcos_username, the lookup answered res:
\* `return id.get_rcos_username().await`
get_rcos_username_done(q, res) ==
    [q EXCEPT !.lookup = SomeV(res), !.username = SomeV(res), !.pc = "handler"]

\* Identity::identity returns ret to whoever called it.
Return(q, ret, outcome) ==
    LET q1 == [q EXCEPT !.ret = ret, !.outcome = outcome, !.ids = NoneV]
    IN  CASE q.caller = "extractor" -> authenticated_from_request(q1, ret)
          [] q.caller = "username" -> get_rcos_username(q1, ret)
          [] OTHER -> [q1 EXCEPT !.pc = "handler"]

\* (mutant) the cookie as it was read is saved back, not the refreshed value
RefreshSucceeded_stale(q) ==
    Return(save(q, q.decoded.val), SomeV(q.ids.val), "RefreshSucceeded")

\* (mutant) the identity is returned but the cookie is cleared
RefreshSucceeded_forgets(q) ==
    Return(forget(q), SomeV(q.ids.val), "RefreshSucceeded")

\* (mutant) the old cookie is cleared before the new one is saved
RefreshSucceeded_forget_then_save(q) ==
    Return(save(forget(q), q.ids.val), SomeV(q.ids.val), "RefreshSucceeded")

\* Identity::identity, Ok arm of the refresh: save and return Some.
RefreshSucceeded(q) ==
    Return(save(q, q.ids.val), SomeV(q.ids.val), "RefreshSucceeded")

\* (mutant) the cookie is evicted when the refresh fails
RefreshFailed_forgets(q) ==
    Return(forget(q), NoneV, "RefreshFailed")

\* Identity::identity, Err arm of the refresh: warn and return None.
RefreshFailed(q) ==
    Return(q, NoneV, "RefreshFailed")

\* (mutant) a malformed cookie is reported but left with the client
DecodeFailed_keeps(q) ==
    Return(q, NoneV, "DecodeFailed")

\* Identity::identity, Err arm of the deserialization: warn, forget, None.
DecodeFailed(q) ==
    Return(forget(q), NoneV, "DecodeFailed")

\* (mutant) a request without a cookie still tells the client to clear it
NoCookie_forgets(q) ==
    Return(forget(q), NoneV, "NoCookie")

\* Identity::identity, `self.inner.identity()?` on None.
NoCookie(q) ==
    Return(q, NoneV, "NoCookie")

\* (mutant) every root is exchanged at the token endpoint
root_exchanges_any(root, t) == TRUE

\* (mutant) a Discord root is exchanged whether it has expired or not
root_exchanges_discord_always(root, t) == root.tag = "Discord"

\* RootIdentity::refresh: a Discord root goes through DiscordIdentity::refresh,
\* any other root is returned as it is.  TRUE when the token endpoint is asked.
root_exchanges(root, t) ==
    root.tag = "Discord" /\ Expired(root.val, t)

\* AuthenticatedIdentities::refresh from the secondary Discord identity on.
refresh_discord(q, t) ==
    IF q.ids.val.discord.some /\ Expired(q.ids.val.discord.val, t)
    THEN [q EXCEPT !.pc = "await_discord", !.calls = Append(@, "discord")]
    ELSE RefreshSucceeded(q)

\* (mutant) both exchanges are started together
refresh_parallel(q, t) ==
    IF root_exchanges(q.ids.val.root, t)
    THEN IF q.ids.val.discord.some /\ Expired(q.ids.val.discord.val, t)
         THEN [q EXCEPT !.pc = "await_root", !.calls = <<"root", "discord">>]
         ELSE [q EXCEPT !.pc = "await_root", !.calls = Append(@, "root")]
    ELSE refresh_discord(q, t)

\* AuthenticatedIdentities::refresh: the root first.
refresh(q, t) ==
    IF root_exchanges(q.ids.val.root, t)
    THEN [q EXCEPT !.pc = "await_root", !.calls = Append(@, "root")]
    ELSE refresh_discord(q, t)

\* (mutant) a failed root refresh falls back to the stale root and goes on
refresh_root_done_continues(q, res, t) ==
    LET q1 == [q EXCEPT !.answers = Append(@, res.ok)]
    IN  IF res.ok
        THEN refresh_discord([q1 EXCEPT !.ids = SomeV([@.val EXCEPT !.root = RootDiscord(res.val)])], t)
        ELSE refresh_discord(q1, t)

\* (mutant) the refreshed root is saved before the secondary is refreshed
refresh_root_done_saves_early(q, res, t) ==
    LET q1 == [q EXCEPT !.answers = Append(@, res.ok)]
        q2 == [q1 EXCEPT !.ids = SomeV([@.val EXCEPT !.root = RootDiscord(res.val)])]
    IN  IF res.ok
        THEN refresh_discord(save(q2, q2.ids.val), t)
        ELSE RefreshFailed(q1)

\* (mutant) the answer of the root's exchange is dropped, the old root kept
refresh_root_done_keeps_old(q, res, t) ==
    LET q1 == [q EXCEPT !.answers = Append(@, res.ok)]
    IN  IF res.ok
        THEN refresh_discord(q1, t)
        ELSE RefreshFailed(q1)

\* (mutant) the new access token and expiry are put beside the old refresh token
refresh_root_done_mixes(q, res, t) ==
    LET q1 == [q EXCEPT !.answers = Append(@, res.ok)]
        old == q.ids.val.root.val
    IN  IF res.ok
        THEN refresh_discord([q1 EXCEPT !.ids = SomeV([@.val EXCEPT !.root =
                 RootDiscord(DiscordIdentity(res.val.access_token, old.refresh_token,
                                             res.val.expiration))])], t)
        ELSE RefreshFailed(q1)

\* (mutant) a rejected root exchange is tried a second time
refresh_root_done_retries(q, res, t) ==
    LET q1 == [q EXCEPT !.answers = Append(@, res.ok)]
    IN  IF res.ok
        THEN refresh_discord([q1 EXCEPT !.ids = SomeV([@.val EXCEPT !.root = RootDiscord(res.val)])], t)
        ELSE IF Len(q1.calls) < 2
             THEN [q1 EXCEPT !.pc = "await_root", !.calls = Append(@, "root")]
             ELSE RefreshFailed(q1)

\* The root's exchange returned res: `self.root = self.root.refresh().await?`
refresh_root_done(q, res, t) ==
    LET q1 == [q EXCEPT !.answers = Append(@, res.ok)]
    IN  IF res.ok
        THEN refresh_discord([q1 EXCEPT !.ids = SomeV([@.val EXCEPT !.root = RootDiscord(res.val)])], t)
        ELSE RefreshFailed(q1)

\* (mutant) a failed secondary refresh is swallowed, the stale one is kept
refresh_discord_done_swallows(q, res) ==
    LET q1 == [q EXCEPT !.answers = Append(@, res.ok)]
    IN  IF res.ok
        THEN RefreshSucceeded([q1 EXCEPT !.ids = SomeV([@.val EXCEPT !.discord = SomeV(res.val)])])
        ELSE RefreshSucceeded(q1)

\* (mutant) writing the refreshed secondary back loses the linked GitHub identity
refresh_discord_done_drops_github(q, res) ==
    LET q1 == [q EXCEPT !.answers = Append(@, res.ok)]
    IN  IF res.ok
        THEN RefreshSucceeded([q1 EXCEPT !.ids = SomeV([@.val EXCEPT !.discord = SomeV(res.val),
                                                                       !.github = NoneV])])
        ELSE RefreshFailed(q1)

\* (mutant) a rejected secondary exchange starts the refresh over at the root
refresh_discord_done_restarts(q, res) ==
    LET q1 == [q EXCEPT !.answers = Append(@, res.ok)]
    IN  IF res.ok
        THEN RefreshSucceeded([q1 EXCEPT !.ids = SomeV([@.val EXCEPT !.discord = SomeV(res.val)])])
        ELSE [q EXCEPT !.pc = "await_root", !.calls = <<"root">>, !.answers = << >>]

\* (mutant) when the secondary fails the refreshed root is still saved
refresh_discord_done_saves_root(q, res) ==
    LET q1 == [q EXCEPT !.answers = Append(@, res.ok)]
    IN  IF res.ok
        THEN RefreshSucceeded([q1 EXCEPT !.ids = SomeV([@.val EXCEPT !.discord = SomeV(res.val)])])
        ELSE RefreshFailed(save(q1, q1.ids.val))

\* The secondary's exchange returned res:
\* `let refreshed = discord_identity.refresh().await?; self.discord = Some(refreshed)`
refresh_discord_done(q, res) ==
    LET q1 == [q EXCEPT !.answers = Append(@, res.ok)]
    IN  IF res.ok
        THEN RefreshSucceeded([q1 EXCEPT !.ids = SomeV([@.val EXCEPT !.discord = SomeV(res.val)])])
        ELSE RefreshFailed(q1)

\* Identity::identity up to its first suspension.
identity(q, t) ==
    LET q0 == [q EXCEPT !.reads = @ + 1, !.decodes = 0, !.refreshes = 0,
                        !.saves = 0, !.forgets = 0, !.saved = NoneV,
                        !.calls = << >>, !.answers = << >>, !.decoded = NoneV,
                        !.seen = q.item.id, !.ret = NoneV, !.outcome = "none"]
    IN  IF ~q0.item.id.some
        THEN NoCookie(q0)
        ELSE LET dec == from_str(q0.item.id.val)
                 q1 == [q0 EXCEPT !.decodes = @ + 1]
             IN  IF dec.ok
                 THEN refresh([q1 EXCEPT !.ids = SomeV(dec.val), !.decoded = SomeV(dec.val),
                                         !.refreshes = @ + 1], t)
                 ELSE DecodeFailed(q1)

\* (mutant) an unreadable transport identity reported as "not signed in"
from_request_unauthenticated(q, fault, t) ==
    IF fault
    THEN [q EXCEPT !.fault = TRUE, !.extracted = SomeV(Err("NotAuthenticated")),
                   !.pc = "respond"]
    ELSE IF q.kind = "required"
         THEN identity([q EXCEPT !.caller = "extractor"], t)
         ELSE [q EXCEPT !.extracted = SomeV(Ok([wrapper |-> TRUE])), !.pc = "handler"]

\* (mutant) the optional extractor runs identity() itself, once, up front
from_request_eager(q, fault, t) ==
    IF fault
    THEN [q EXCEPT !.fault = TRUE, !.extracted = SomeV(Err("InternalServerError")),
                   !.pc = "respond"]
    ELSE IF q.kind = "required"
         THEN identity([q EXCEPT !.caller = "extractor"], t)
         ELSE identity([q EXCEPT !.extracted = SomeV(Ok([wrapper |-> TRUE])),
                                 !.caller = "identity"], t)

\* FromRequest for Identity: ActixIdentity::extract, an error becomes an
\* ISE, otherwise the identity is wrapped.  FromRequest for
\* AuthenticatedIdentities: extract the Identity, propagate its error,
\* otherwise run identity().
from_request(q, fault, t) ==
    IF fault
    THEN [q EXCEPT !.fault = TRUE, !.extracted = SomeV(Err("InternalServerError")),
                   !.pc = "respond"]
    ELSE IF q.kind = "required"
         THEN identity([q EXCEPT !.caller = "extractor"], t)
         ELSE [q EXCEPT !.extracted = SomeV(Ok([wrapper |-> TRUE])), !.pc = "handler"]

\* ---------------------------------------------------------------- errors
\* The variants of TelescopeError.
TelescopeErrors ==
    {"PageNotFound", "ResourceNotFound", "RenderingError", "FutureCanceled",
     "InternalServerError", "BadRequest", "LettreFileError", "LettreSmtpError",
     "NegativeSmtpResponse", "NotImplemented", "IpExtractionError",
     "CsrfTokenNotFound", "CsrfTokenMismatch", "RcosApiError", "GitHubApiError",
     "GraphQLError", "InvalidForm", "NotAuthenticated"}

\* (mutant) no arm for NotAuthenticated
status_code_no_unauthorized(e) ==
    CASE e = "BadRequest" -> 400
      [] e = "ResourceNotFound" -> 404
      [] e = "PageNotFound" -> 404
      [] e = "NotImplemented" -> 501
      [] e = "CsrfTokenNotFound" -> 404
      [] e = "CsrfTokenMismatch" -> 400
      [] e = "InvalidForm" -> 400
      [] OTHER -> 500

\* ResponseError::status_code for TelescopeError.
status_code(e) ==
    CASE e = "BadRequest" -> 400
      [] e = "ResourceNotFound" -> 404
      [] e = "PageNotFound" -> 404
      [] e = "NotImplemented" -> 501
      [] e = "CsrfTokenNotFound" -> 404
      [] e = "CsrfTokenMismatch" -> 400
      [] e = "InvalidForm" -> 400
      [] e = "NotAuthenticated" -> 401
      [] OTHER -> 500

\* The request ends; when the extractor or the handler gave an error, the
\* response is the error's, with its status code.
error_response(q) ==
    [q EXCEPT !.pc = "done",
              !.status = IF q.extracted.some /\ ~q.extracted.val.ok
                         THEN SomeV(status_code(q.extracted.val.err))
                         ELSE NoneV]

\* ------------------------------------------------------ cookie transport
\* The attributes of no cookie.
NoAttrs == [key |-> 0, expires |-> 0]

\* CookieIdentityPolicy writing identity item id at time t under key k: the
\* cookie is sealed with the key and carries Max-Age.
set_cookie(id, k, t) ==
    IF id.some THEN [key |-> k, expires |-> t + MaxAge] ELSE NoAttrs

\* (mutant) a cookie is opened whatever key sealed it
load_any_key(c, a, k, t) ==
    IF c.some /\ t < a.expires THEN c ELSE NoneV

\* CookieIdentityPolicy reading the cookie c with attributes a at time t under
\* key k: the client sends a cookie until it expires, and the policy opens
\* only what its own key sealed.
load(c, a, k, t) ==
    IF c.some /\ t < a.expires /\ a.key = k THEN c ELSE NoneV

\* --------------------------------------------------- meeting-edit service
\* web/services/meetings/edit.rs.  The RCOS API holds the meeting; edit_page
\* and submit_meeting_edits read it, the viewer's authorization and the
\* creation context, each with one call they await.
Dates == 0..MaxDate
Times == {"08:00", "09:00", "noon"}
Semesters == {"s1", "s2"}
MeetingIds == {"m1", "m2"}

\* The submitted FinishForm, as far as it is validated.
Forms ==
    [start_date : Dates, end_date : Dates,
     start_time : Times, end_time : Times, semester : Semesters]

Meeting(s, start, end) == [semester |-> s, start |-> start, end |-> end]

InitMeetings == {NoneV, SomeV(Meeting("s1", <<1, 8>>, <<1, 9>>))}

InitEdit ==
    [pc |-> "idle",
     route |-> "none",
     form_data |-> NoneV,     \* the deserialized form of a POST
     before |-> NoneV,        \* the meeting in the database when the handler began
     found |-> NoneV,         \* whether Meeting::get found the meeting
     meeting_data |-> NoneV,
     can_edit |-> NoneV,      \* what authorization.can_edit(meeting_host) said
     form |-> NoneV,          \* the form template, once made
     selected_semester |-> NoneV,  \* the form's semester, found in the context
     variables |-> NoneV,     \* what EditMeeting::execute was called with
     result |-> NoneV]        \* what the handler returned

\* The handler returns Err(kind) / Ok(response).
Raise(e, kind) == [e EXCEPT !.result = SomeV(Err(kind)), !.pc = "done"]
Reply(e, status, location) ==
    [e EXCEPT !.result = SomeV(Ok([status |-> status, location |-> location])),
              !.pc = "done"]

\* The collaborators' errors, as `?` passes them on.
ApiErrors == {"RcosApiError", "GraphQLError"}
Results(S) == {Err(k) : k \in ApiErrors} \cup {Ok(x) : x \in S}

\* get_meeting_data: Meeting::get(meeting_id).await?.ok_or(resource_not_found)
get_meeting_data(e, ans) ==
    IF ~ans.ok THEN Raise(e, ans.err)
    ELSE IF ~ans.val.some
         THEN Raise([e EXCEPT !.found = SomeV(FALSE)], "ResourceNotFound")
         ELSE [e EXCEPT !.found = SomeV(TRUE), !.meeting_data = ans.val,
                        !.pc = "get_user_id"]

\* authorization_for_viewer: auth.get_user_id_or_error().await?
authorization_for_viewer(e, ans) ==
    IF ~ans.ok THEN Raise(e, ans.err)
    ELSE [e EXCEPT !.pc = "get_authorization"]

\* (mutant) the authorization is fetched but not consulted
meeting_data_checked_any_viewer(e, ans) ==
    IF ~ans.ok THEN Raise(e, ans.err)
    ELSE [e EXCEPT !.can_edit = SomeV(ans.val), !.pc = "get_context"]

\* meeting_data_checked after AuthorizationFor::get(Some(viewer)).await:
\* Forbidden unless authorization.can_edit(meeting_host).
meeting_data_checked(e, ans) ==
    IF ~ans.ok THEN Raise(e, ans.err)
    ELSE IF ~ans.val
         THEN Raise([e EXCEPT !.can_edit = SomeV(FALSE)], "Forbidden")
         ELSE [e EXCEPT !.can_edit = SomeV(TRUE), !.pc = "get_context"]

\* get_semester_bounds (meetings/create.rs) reads the first and last date of
\* the selected semester from the creation context.
get_semester_bounds(s) ==
    IF s = "s1" THEN [start |-> 1, end |-> 2] ELSE [start |-> 2, end |-> 3]

\* time_parse: format!("{}:00", time).parse::<NaiveTime>()
time_parse(time) ==
    IF time = "08:00" THEN Ok(8)
    ELSE IF time = "09:00" THEN Ok(9)
    ELSE Err("BadRequest")

\* NaiveDate::and_time, and the order of NaiveDateTime.
and_time(date, time) == <<date, time>>
Later_than(a, b) == a[1] > b[1] \/ (a[1] = b[1] /\ a[2] > b[2])

\* The date checks of submit_meeting_edits: the first that applies sets one
\* issue in the form.
date_issues(start_date, end_date, semester_start, semester_end) ==
    IF end_date < start_date THEN {"end_date"}
    ELSE IF start_date > semester_end THEN {"start_date"}
    ELSE IF end_date > semester_end THEN {"end_date"}
    ELSE IF start_date < semester_start THEN {"start_date"}
    ELSE IF end_date < semester_start THEN {"end_date"}
    ELSE {}

\* edit_page from the creation context on: make the form and render it.
edit_page(e, ans) ==
    IF ~ans.ok THEN Raise(e, ans.err)
    ELSE [e EXCEPT !.form = SomeV([issues |-> {}]), !.pc = "in_page"]

\* (mutant) the issues are noted in the form but the edit goes on
submit_meeting_edits_ignores_issues(e, ans, single) ==
    IF ~ans.ok THEN Raise(e, ans.err)
    ELSE
    LET f == e.form_data.val
        e0 == [e EXCEPT !.form = SomeV([issues |-> {}])]
        e1 == [e0 EXCEPT !.selected_semester = SomeV(f.semester)]
        bounds == get_semester_bounds(f.semester)
        dates == date_issues(f.start_date, f.end_date, bounds.start, bounds.end)
        start_time == time_parse(f.start_time)
        end_time == time_parse(f.end_time)
        start == and_time(f.start_date, start_time.val)
        end == and_time(f.end_date, end_time.val)
        issues == dates \cup (IF Later_than(start, end) THEN {"end_time"} ELSE {})
    IN  IF f.semester \notin ans.val THEN Raise(e0, "BadRequest")
        ELSE IF ~start_time.ok \/ ~end_time.ok THEN Raise(e1, "BadRequest")
        ELSE IF ~single.start \/ ~single.end
             THEN Raise([e1 EXCEPT !.form = SomeV([issues |-> issues])], "BadRequest")
        ELSE [e1 EXCEPT !.form = SomeV([issues |-> issues]),
                        !.variables = SomeV([semester_id |-> f.semester,
                                             start |-> start, end |-> end]),
                        !.pc = "execute"]

\* submit_meeting_edits from the creation context (ans: its available
\* semesters) to the next call it awaits: the selected semester, the date
\* checks, the times, the order of the timestamps, then either the form with
\* its issues is rendered or the local timestamps are made (single: whether
\* Local.from_local_datetime(..).single() has a value) and the mutation runs.
submit_meeting_edits(e, ans, single) ==
    IF ~ans.ok THEN Raise(e, ans.err)
    ELSE
    LET f == e.form_data.val
        e0 == [e EXCEPT !.form = SomeV([issues |-> {}])]
        e1 == [e0 EXCEPT !.selected_semester = SomeV(f.semester)]
        bounds == get_semester_bounds(f.semester)
        dates == date_issues(f.start_date, f.end_date, bounds.start, bounds.end)
        start_time == time_parse(f.start_time)
        end_time == time_parse(f.end_time)
        start == and_time(f.start_date, start_time.val)
        end == and_time(f.end_date, end_time.val)
        issues == dates \cup (IF Later_than(start, end) THEN {"end_time"} ELSE {})
    IN  IF f.semester \notin ans.val THEN Raise(e0, "BadRequest")
        ELSE IF ~start_time.ok \/ ~end_time.ok
             THEN Raise([e1 EXCEPT !.form = SomeV([issues |-> dates])], "BadRequest")
        ELSE IF issues # {}
             THEN [e1 EXCEPT !.form = SomeV([issues |-> issues]), !.pc = "in_page"]
        ELSE IF ~single.start \/ ~single.end THEN Raise(e1, "BadRequest")
        ELSE [e1 EXCEPT !.variables = SomeV([semester_id |-> f.semester,
                                             start |-> start, end |-> end]),
                        !.pc = "execute"]

\* form.in_page(..).await: the edit page itself, or the page of InvalidForm.
in_page(e, ans) ==
    IF ~ans.ok THEN Raise(e, ans.err)
    ELSE IF e.route = "edit_page" THEN Reply(e, "Ok", "none")
    ELSE Raise(e, "InvalidForm")

\* The meeting after the edit mutation ran with variables v.
edited(v) == SomeV(Meeting(v.semester_id, v.start, v.end))

\* edit::EditMeeting::execute(..).await?.unwrap_or(meeting_id), then the
\* redirect to /meeting/{id}.
execute_done(e, ans) ==
    IF ~ans.ok THEN Raise(e, ans.err)
    ELSE Reply(e, "Found", IF ans.val.some THEN ans.val.val ELSE "m1")

\* -------------------------------------------------------------- initial
T1 == Triple(1, 0)
T2 == Triple(2, 1)

InitRoots == {RootGitHub(GitHubIdentity("ghA")), RootDiscord(T1)}

InitIdentities ==
    {AuthenticatedIdentities(root, gh, d) :
        root \in InitRoots,
        gh \in {NoneV, SomeV(GitHubIdentity("ghB"))},
        d \in {NoneV, SomeV(T2)}}

\* Cookies that do not deserialize: not JSON of the schema at all, the
\* superseded draft's bare two-variant union, and a null root.
MalformedCookies ==
    {[raw |-> "not-a-valid-session"],
     [GitHub |-> SerGitHub(GitHubIdentity("ghA"))],
     [root |-> JsonNull, github |-> JsonNull, discord |-> JsonNull]}

InitCookies ==
    {NoneV} \cup {SomeV(to_string(x)) : x \in InitIdentities}
            \cup {SomeV(j) : j \in MalformedCookies}

Init ==
    /\ now = 0
    /\ clientCookie \in InitCookies
    /\ cookie_key = 0
    /\ attrs = set_cookie(clientCookie, cookie_key, now)
    /\ issued = {T1, T2}
    /\ req = [r \in Req |-> InitReq]
    /\ meeting = NoneV
    /\ edit = InitEdit

\* -------------------------------------------------------------- actions
\* A request arrives: the identity middleware loads the client's cookie
\* into the request's identity item and the route's extractor runs.
Arrive(r) ==
    /\ \E kind \in {"optional", "required"}, fault \in BOOLEAN :
         req' = [req EXCEPT ![r] =
                    from_request([InitReq EXCEPT !.kind = kind,
                                                 !.item = [id |-> load(clientCookie, attrs, cookie_key, now),
                                                           changed |-> FALSE]],
                                 fault, now)]
    /\ UNCHANGED <<now, clientCookie, attrs, cookie_key, issued, meeting, edit>>

\* The client sends its first request.
Send(r) ==
    /\ req[r].pc = "idle"
    /\ Arrive(r)

\* The client sends another request after the previous one ended.
Again(r) ==
    /\ req[r].pc \in {"done", "dropped"}
    /\ Arrive(r)

\* The answers of the token endpoint to an exchange at time t.
Answers(t) == {Err("ProviderError")} \cup {Ok(d) : d \in FreshTriples(t)}

RootResponse(r) ==
    /\ req[r].pc = "await_root"
    /\ \E res \in Answers(now) :
         /\ req' = [req EXCEPT ![r] = refresh_root_done(@, res, now)]
         /\ issued' = IF res.ok THEN issued \cup {res.val} ELSE issued
    /\ UNCHANGED <<now, clientCookie, attrs, cookie_key, meeting, edit>>

DiscordResponse(r) ==
    /\ req[r].pc = "await_discord"
    /\ \E res \in Answers(now) :
         /\ req' = [req EXCEPT ![r] = refresh_discord_done(@, res)]
         /\ issued' = IF res.ok THEN issued \cup {res.val} ELSE issued
    /\ UNCHANGED <<now, clientCookie, attrs, cookie_key, meeting, edit>>

\* The request's future is dropped while suspended (timeout, disconnect).
Cancel(r) ==
    /\ req[r].pc \in {"await_root", "await_discord", "await_username"}
    /\ req' = [req EXCEPT ![r] = [@ EXCEPT !.pc = "dropped"]]
    /\ UNCHANGED <<now, clientCookie, attrs, cookie_key, issued, meeting, edit>>

\* A handler holding the optional extractor's Identity calls identity() or
\* get_rcos_username() on it; both begin by running identity().
HandlerCall(r) ==
    /\ req[r].pc = "handler"
    /\ req[r].ncalls < MaxHandlerCalls
    /\ \E which \in {"identity", "username"} :
         req' = [req EXCEPT ![r] =
                    identity([@ EXCEPT !.caller = which, !.ncalls = @ + 1], now)]
    /\ UNCHANGED <<now, clientCookie, attrs, cookie_key, issued, meeting, edit>>

\* The RCOS username linked to the account of credential root, if any.
RcosUsername(root) ==
    IF root.tag = "GitHub" THEN <<"rcos", root.val.access_token>>
    ELSE <<"rcos", "discord">>

\* RootIdentity::get_rcos_username: the lookup of the GitHub or of the
\* Discord credential answers with the linked username, with none, or fails.
UsernameAnswers(root) ==
    {Ok(SomeV(RcosUsername(root))), Ok(NoneV), Err("ProviderError")}

UsernameResponse(r) ==
    /\ req[r].pc = "await_username"
    /\ \E res \in UsernameAnswers(req[r].asked.val) :
         req' = [req EXCEPT ![r] = get_rcos_username_done(@, res)]
    /\ UNCHANGED <<now, clientCookie, attrs, cookie_key, issued, meeting, edit>>

\* (mutant) a cookie another response already replaced is not replaced again
Respond_first_wins(r) ==
    /\ req[r].pc \in {"handler", "respond"}
    /\ clientCookie' = IF /\ req[r].item.changed
                          /\ ~\E s \in Req \ {r} : req[s].pc = "done" /\ req[s].item.changed
                       THEN req[r].item.id ELSE clientCookie
    /\ attrs' = IF /\ req[r].item.changed
                   /\ ~\E s \in Req \ {r} : req[s].pc = "done" /\ req[s].item.changed
                THEN set_cookie(req[r].item.id, cookie_key, now) ELSE attrs
    /\ req' = [req EXCEPT ![r] = error_response(@)]
    /\ UNCHANGED <<now, cookie_key, issued, meeting, edit>>

\* (mutant) a cookie that replaces one keeps the expiry of the one it replaces
Respond_keeps_expiry(r) ==
    /\ req[r].pc \in {"handler", "respond"}
    /\ clientCookie' = IF req[r].item.changed THEN req[r].item.id ELSE clientCookie
    /\ attrs' = IF req[r].item.changed
                THEN IF req[r].item.id.some /\ clientCookie.some
                     THEN [key |-> cookie_key, expires |-> attrs.expires]
                     ELSE set_cookie(req[r].item.id, cookie_key, now)
                ELSE attrs
    /\ req' = [req EXCEPT ![r] = error_response(@)]
    /\ UNCHANGED <<now, cookie_key, issued, meeting, edit>>

\* (mutant) the response to a failed refresh removes the client's cookie
Respond_evicts_failed(r) ==
    /\ req[r].pc \in {"handler", "respond"}
    /\ clientCookie' = IF req[r].outcome = "RefreshFailed" THEN NoneV
                       ELSE IF req[r].item.changed THEN req[r].item.id ELSE clientCookie
    /\ attrs' = IF req[r].outcome = "RefreshFailed" THEN NoAttrs
                ELSE IF req[r].item.changed
                     THEN set_cookie(req[r].item.id, cookie_key, now) ELSE attrs
    /\ req' = [req EXCEPT ![r] = error_response(@)]
    /\ UNCHANGED <<now, cookie_key, issued, meeting, edit>>

\* The response leaves: the identity middleware writes a changed identity
\* item to the client (Set-Cookie, or removal after forget).
Respond(r) ==
    /\ req[r].pc \in {"handler", "respond"}
    /\ clientCookie' = IF req[r].item.changed THEN req[r].item.id ELSE clientCookie
    /\ attrs' = IF req[r].item.changed
                THEN set_cookie(req[r].item.id, cookie_key, now) ELSE attrs
    /\ req' = [req EXCEPT ![r] = error_response(@)]
    /\ UNCHANGED <<now, cookie_key, issued, meeting, edit>>

Tick ==
    /\ now < MaxTime
    /\ now' = now + 1
    /\ UNCHANGED <<clientCookie, attrs, cookie_key, issued, req, meeting, edit>>

Others ==
    \/ \E r \in Req : RootResponse(r)
    \/ \E r \in Req : DiscordResponse(r)
    \/ \E r \in Req : Cancel(r)
    \/ \E r \in Req : HandlerCall(r)
    \/ \E r \in Req : UsernameResponse(r)
    \/ \E r \in Req : Respond(r)
    \/ Tick

\* One request after the other.
Next ==
    \/ Send("r1")
    \/ Again("r1")
    \/ Others

Spec == Init /\ [][Next]_vars

\* After both requests ended, the client sends a further one.
Later ==
    /\ req["r2"].pc \in {"done", "dropped"}
    /\ Again("r1")

\* Two requests bearing the same cookie, in flight together, each reading the
\* identity on arrival if its route requires one, and requests after them.
NextConcurrent ==
    \/ Send("r1")
    \/ req["r1"].pc # "idle" /\ Send("r2")
    \/ Later
    \/ \E r \in Req : RootResponse(r)
    \/ \E r \in Req : DiscordResponse(r)
    \/ \E r \in Req : Cancel(r)
    \/ \E r \in Req : Respond(r)
    \/ Tick

SpecConcurrent == Init /\ [][NextConcurrent]_vars

\* ------------------------------------------------- sessions from sign-in
\* No request of the client is being served.
Quiet == \A r \in Req : req[r].pc \in {"idle", "done", "dropped"}

\* First authentication: the sign-in handler puts the root credential in a
\* cookie (make_authenticated_cookie) and the client stores it.
Login ==
    /\ Quiet
    /\ \E root \in InitRoots :
         clientCookie' = SomeV(to_string(make_authenticated_cookie(root)))
    /\ attrs' = set_cookie(clientCookie', cookie_key, now)
    /\ UNCHANGED <<now, cookie_key, issued, req, meeting, edit>>

\* A signed-in user links the other provider: its credential goes to that
\* provider's secondary slot.
Link ==
    /\ Quiet
    /\ load(clientCookie, attrs, cookie_key, now).some
    /\ from_str(clientCookie.val).ok
    /\ LET x == from_str(clientCookie.val).val
       IN  \/ /\ x.root.tag = "GitHub"
              /\ ~x.discord.some
              /\ clientCookie' = SomeV(to_string([x EXCEPT !.discord = SomeV(T2)]))
           \/ /\ x.root.tag = "Discord"
              /\ ~x.github.some
              /\ clientCookie' = SomeV(to_string([x EXCEPT !.github = SomeV(GitHubIdentity("ghB"))]))
    /\ attrs' = set_cookie(clientCookie', cookie_key, now)
    /\ UNCHANGED <<now, cookie_key, issued, req, meeting, edit>>

InitSession ==
    /\ now = 0
    /\ clientCookie = NoneV
    /\ cookie_key = 0
    /\ attrs = NoAttrs
    /\ issued = {T1, T2}
    /\ req = [r \in Req |-> InitReq]
    /\ meeting = NoneV
    /\ edit = InitEdit

\* The cookies of this specification all come from sign-in and linking.
NextSession ==
    \/ Login
    \/ Link
    \/ Next

SpecSession == InitSession /\ [][NextSession]_vars

\* ------------------------------------------------------ process restarts
\* The server process ends and is started again: main draws a new cookie_key
\* from OsRng (never one drawn before), and what was being served is gone.
Restart ==
    /\ cookie_key < MaxRestarts
    /\ cookie_key' = cookie_key + 1
    /\ req' = [r \in Req |->
                 IF req[r].pc \in {"idle", "done", "dropped"} THEN req[r]
                 ELSE [req[r] EXCEPT !.pc = "dropped"]]
    /\ UNCHANGED <<now, clientCookie, attrs, issued, meeting, edit>>

\* Requests one after the other, each reading the identity on arrival if its
\* route requires one, restarts of the process, and a sign-in whenever the
\* client has no cookie the running process accepts.
NextRestart ==
    \/ Restart
    \/ ~load(clientCookie, attrs, cookie_key, now).some /\ Login
    \/ Send("r1")
    \/ Again("r1")
    \/ \E r \in Req : RootResponse(r)
    \/ \E r \in Req : DiscordResponse(r)
    \/ \E r \in Req : Cancel(r)
    \/ \E r \in Req : Respond(r)
    \/ Tick

SpecRestart == Init /\ [][NextRestart]_vars

\* ----------------------------------------------------- failing handlers
\* The handler of request r fails with a TelescopeError.
Fail(r) ==
    /\ req[r].pc = "handler"
    /\ \E e \in TelescopeErrors :
         req' = [req EXCEPT ![r] = [@ EXCEPT !.extracted = SomeV(Err(e)),
                                             !.pc = "respond"]]
    /\ UNCHANGED <<now, clientCookie, attrs, cookie_key, issued, meeting, edit>>

\* Requests one after the other, each reading the identity on arrival if its
\* route requires one, whose handlers may fail.
NextErrors ==
    \/ \E r \in Req : Fail(r)
    \/ Send("r1")
    \/ Again("r1")
    \/ \E r \in Req : RootResponse(r)
    \/ \E r \in Req : DiscordResponse(r)
    \/ \E r \in Req : Cancel(r)
    \/ \E r \in Req : Respond(r)
    \/ Tick

SpecErrors == Init /\ [][NextErrors]_vars

\* Requests that are not abandoned: every exchange an identity-read waits
\* for is answered by the token endpoint, with a credential or an error.
NextLive ==
    \/ Send("r1")
    \/ Again("r1")
    \/ \E r \in Req : RootResponse(r)
    \/ \E r \in Req : DiscordResponse(r)
    \/ \E r \in Req : HandlerCall(r)
    \/ \E r \in Req : UsernameResponse(r)
    \/ \E r \in Req : Respond(r)
    \/ Tick

SpecLive ==
    /\ Init
    /\ [][NextLive]_vars
    /\ \A r \in Req : WF_vars(RootResponse(r)) /\ WF_vars(DiscordResponse(r))

\* ------------------------------------------- meeting-edit specification
\* One viewer's requests to /meeting/m1/edit, one after the other.
InitService ==
    /\ now = 0
    /\ clientCookie = NoneV
    /\ cookie_key = 0
    /\ attrs = NoAttrs
    /\ issued = {T1, T2}
    /\ req = [r \in Req |-> InitReq]
    /\ meeting \in InitMeetings
    /\ edit = InitEdit

identityVars == <<now, clientCookie, attrs, cookie_key, issued, req>>

\* GET /meeting/{meeting_id}/edit
GetEdit ==
    /\ edit.pc = "idle"
    /\ edit' = [InitEdit EXCEPT !.pc = "get_meeting", !.route = "edit_page",
                                !.before = meeting]
    /\ UNCHANGED <<identityVars, meeting>>

\* POST /meeting/{meeting_id}/edit with a form
PostEdit ==
    /\ edit.pc = "idle"
    /\ \E f \in Forms :
         edit' = [InitEdit EXCEPT !.pc = "get_meeting", !.route = "submit_meeting_edits",
                                  !.form_data = SomeV(f), !.before = meeting]
    /\ UNCHANGED <<identityVars, meeting>>

MeetingResponse ==
    /\ edit.pc = "get_meeting"
    /\ \E ans \in Results({meeting}) : edit' = get_meeting_data(edit, ans)
    /\ UNCHANGED <<identityVars, meeting>>

UserIdResponse ==
    /\ edit.pc = "get_user_id"
    /\ \E ans \in Results({"viewer"}) : edit' = authorization_for_viewer(edit, ans)
    /\ UNCHANGED <<identityVars, meeting>>

AuthorizationResponse ==
    /\ edit.pc = "get_authorization"
    /\ \E ans \in Results(BOOLEAN) : edit' = meeting_data_checked(edit, ans)
    /\ UNCHANGED <<identityVars, meeting>>

\* CreationContext::execute answers with the available semesters, the
\* meeting's own among them.
ContextResponse ==
    /\ edit.pc = "get_context"
    /\ \E ans \in Results({S \in SUBSET Semesters : edit.meeting_data.val.semester \in S}) :
         IF edit.route = "edit_page"
         THEN edit' = edit_page(edit, ans)
         ELSE \E single \in [start : BOOLEAN, end : BOOLEAN] :
                 edit' = submit_meeting_edits(edit, ans, single)
    /\ UNCHANGED <<identityVars, meeting>>

PageResponse ==
    /\ edit.pc = "in_page"
    /\ \E ans \in {Err("RenderingError"), Ok("page")} : edit' = in_page(edit, ans)
    /\ UNCHANGED <<identityVars, meeting>>

\* The edit mutation runs in the RCOS API and answers with the meeting's id,
\* or the call fails and the meeting is as it was.
MutationResponse ==
    /\ edit.pc = "execute"
    /\ \E ans \in Results({NoneV} \cup {SomeV(id) : id \in MeetingIds}) :
         /\ edit' = execute_done(edit, ans)
         /\ meeting' = IF ans.ok THEN edited(edit.variables.val) ELSE meeting
    /\ UNCHANGED identityVars

\* The response has gone; the viewer may send the next request.
Responded ==
    /\ edit.pc = "done"
    /\ edit' = InitEdit
    /\ UNCHANGED <<identityVars, meeting>>

NextService ==
    \/ GetEdit
    \/ PostEdit
    \/ MeetingResponse
    \/ UserIdResponse
    \/ AuthorizationResponse
    \/ ContextResponse
    \/ PageResponse
    \/ MutationResponse
    \/ Responded

SpecService == InitService /\ [][NextService]_vars

\* ================================================================ claims
\* Identity::identity has run in request q / has returned in request q.
Ran(q) == q.reads > 0
Completed(q) == q.outcome # "none"

\* The run is suspended in AuthenticatedIdentities::refresh.
Suspended(q) == q.pc \in {"await_root", "await_discord"}

\* Some exchange of the run was rejected / every exchange was accepted.
Rejected(q) == \E i \in DOMAIN q.answers : ~q.answers[i]
AllAccepted(q) ==
    /\ Len(q.answers) = Len(q.calls)
    /\ \A i \in DOMAIN q.answers : q.answers[i]

\* Request r's response leaves in this step.
Responds(r) == req[r].pc \in {"handler", "respond"} /\ req'[r].pc = "done"

\* C1: an identity-read whose cookie decodes and whose refresh succeeds calls
\* save exactly once, with the refreshed identity, returns Some of that same
\* identity and never calls forget; the request's cookie is then the encoding
\* of the returned identity, and that is what the client holds once the
\* response of a request that ended this way has left.
C1_RefreshSucceededSaves ==
    [][\A r \in Req :
         LET q == req'[r]
         IN  /\ (Completed(q) /\ q.decoded.some /\ AllAccepted(q))
                    => q.outcome = "RefreshSucceeded"
             /\ q.outcome = "RefreshSucceeded"
                    => /\ q.ret.some
                       /\ q.saves = 1
                       /\ q.forgets = 0
                       /\ q.saved = q.ret
                       /\ q.item = [id |-> SomeV(to_string(q.ret.val)), changed |-> TRUE]
             /\ (Responds(r) /\ req[r].outcome = "RefreshSucceeded")
                    => clientCookie' = SomeV(to_string(req[r].ret.val))]_vars

C1_Witness ==
    \E r \in Req :
        /\ req[r].pc = "done"
        /\ req[r].outcome = "RefreshSucceeded"
        /\ req[r].calls = <<"root">>
        /\ req[r].ret.val # req[r].decoded.val
        /\ clientCookie = SomeV(to_string(req[r].ret.val))
        /\ clientCookie # req[r].seen

\* C2: an identity-read on a cookie that does not deserialize calls forget
\* (the identity item is cleared, so the client is told to drop the cookie),
\* returns None, and neither refreshes, nor asks the token endpoint, nor saves.
C2_DecodeFailedForgets ==
    \A r \in Req :
        LET q == req[r]
        IN  (Ran(q) /\ q.seen.some /\ ~from_str(q.seen.val).ok)
                => /\ q.outcome = "DecodeFailed"
                   /\ q.ret = NoneV
                   /\ q.forgets = 1
                   /\ q.item = [id |-> NoneV, changed |-> TRUE]
                   /\ q.refreshes = 0
                   /\ q.calls = << >>
                   /\ q.saves = 0

C2_Witness ==
    \E r \in Req :
        /\ req[r].outcome = "DecodeFailed"
        /\ req[r].seen \in {SomeV(j) : j \in MalformedCookies}
        /\ req[r].pc = "done"
        /\ clientCookie = NoneV

\* C3: an identity-read whose refresh fails returns None and calls neither
\* save nor forget: the request's cookie is the one it arrived with, and the
\* response of a request whose only identity-read ended this way leaves the
\* client's cookie as it was.
C3_RefreshFailedKeepsCookie ==
    [][\A r \in Req :
         LET q == req'[r]
         IN  /\ (Ran(q) /\ Rejected(q))
                    => /\ q.outcome = "RefreshFailed"
                       /\ q.ret = NoneV
                       /\ q.saves = 0
                       /\ q.forgets = 0
                       /\ q.item.id = q.seen
             /\ (Responds(r) /\ req[r].outcome = "RefreshFailed" /\ req[r].reads = 1)
                    => clientCookie' = clientCookie /\ clientCookie' = req[r].seen]_vars

C3_Witness ==
    \E r \in Req :
        /\ req[r].outcome = "RefreshFailed"
        /\ req[r].pc = "done"
        /\ req[r].seen.some
        /\ clientCookie = req[r].seen

\* C4 (as claimed): the cookie is forgotten both when decoding fails and when
\* the refresh fails.
C4_Original ==
    \A r \in Req :
        req[r].outcome \in {"DecodeFailed", "RefreshFailed"} => req[r].forgets = 1

\* C4 (amended): the cookie is forgotten when decoding fails; when the refresh
\* fails it is not forgotten and stays as it was.
C4_ForgottenOnDecodeFailureOnly ==
    \A r \in Req :
        LET q == req[r]
        IN  /\ q.outcome = "DecodeFailed" => q.forgets = 1 /\ q.item.id = NoneV
            /\ q.outcome = "RefreshFailed"
                   => q.forgets = 0 /\ q.item.id.some /\ q.item.id = q.seen
            /\ q.forgets > 0 => q.outcome = "DecodeFailed"

C4_Witness ==
    \E r \in Req :
        /\ req[r].outcome = "RefreshFailed"
        /\ req[r].answers = <<FALSE>>
        /\ req[r].pc = "done"
        /\ clientCookie.some
        /\ from_str(clientCookie.val).ok

\* C5: an identity-read without a cookie returns None at once: nothing is
\* decoded or refreshed, no collaborator is called, nothing is saved or
\* forgotten.
C5_NoCookieNoWork ==
    \A r \in Req :
        LET q == req[r]
        IN  (Ran(q) /\ ~q.seen.some)
                => /\ q.outcome = "NoCookie"
                   /\ q.ret = NoneV
                   /\ q.decodes = 0
                   /\ q.refreshes = 0
                   /\ q.calls = << >>
                   /\ q.saves = 0
                   /\ q.forgets = 0
                   /\ q.item.id = NoneV
                   /\ q.pc \notin {"await_root", "await_discord", "await_username"}

C5_Witness ==
    \E r \in Req :
        /\ req[r].outcome = "NoCookie"
        /\ req[r].caller = "username"
        /\ req[r].username = SomeV(Ok(NoneV))
        /\ req[r].pc = "done"
        /\ clientCookie = NoneV

\* The secondary Discord identity's exchange was the run's last one and was
\* rejected (so the root's refresh, if any, had succeeded).
SecondaryRejected(q) ==
    /\ q.calls # << >>
    /\ Len(q.answers) = Len(q.calls)
    /\ q.calls[Len(q.calls)] = "discord"
    /\ ~q.answers[Len(q.answers)]

\* C6 (as claimed): when the root refresh succeeds and the secondary Discord
\* identity's refresh fails, the failure is swallowed: the refresh succeeds
\* with the refreshed root and the stale secondary.
C6_Original ==
    \A r \in Req :
        LET q == req[r]
        IN  SecondaryRejected(q)
                => /\ q.outcome = "RefreshSucceeded"
                   /\ q.ret.some
                   /\ q.ret.val.discord = q.decoded.val.discord

\* C6 (amended): when the root refresh succeeds and the secondary Discord
\* identity's refresh fails, the failure is propagated: the aggregate refresh
\* fails, no identity is returned and nothing is saved.
C6_SecondaryFailurePropagates ==
    \A r \in Req :
        LET q == req[r]
        IN  SecondaryRejected(q)
                => /\ q.outcome = "RefreshFailed"
                   /\ q.ret = NoneV
                   /\ q.saved = NoneV
                   /\ q.saves = 0

C6_Witness ==
    \E r \in Req :
        /\ req[r].decoded.some
        /\ req[r].decoded.val.root.tag = "GitHub"
        /\ req[r].calls = <<"discord">>
        /\ req[r].answers = <<FALSE>>
        /\ req[r].outcome = "RefreshFailed"

\* C7: the aggregate refresh asks for the root before the secondary; when the
\* root's refresh fails the whole refresh fails: the secondary's refresh is
\* never attempted and no identity comes back.
C7_RootFailureFailsAll ==
    \A r \in Req :
        LET q == req[r]
        IN  /\ q.calls \in {<< >>, <<"root">>, <<"discord">>, <<"root", "discord">>}
            /\ (q.calls # << >> /\ q.answers # << >> /\ q.calls[1] = "root" /\ ~q.answers[1])
                   => /\ q.outcome = "RefreshFailed"
                      /\ q.ret = NoneV
                      /\ q.calls = <<"root">>
                      /\ q.saves = 0

C7_Witness ==
    \E r \in Req :
        /\ req[r].decoded.some
        /\ req[r].decoded.val.discord.some
        /\ Expired(req[r].decoded.val.discord.val, now)
        /\ req[r].calls = <<"root">>
        /\ req[r].answers = <<FALSE>>
        /\ req[r].outcome = "RefreshFailed"

\* C8: nothing is written to the cookie before the aggregate refresh has
\* succeeded: while an identity-read is suspended in the refresh, and after
\* it was dropped there, no save has happened and the request's cookie is the
\* one the read began with; the client's cookie changes only when a response
\* carrying a changed identity item leaves, which a dropped request never
\* sends.
C8_CookieKeptUntilRefreshSucceeds ==
    [][/\ \A r \in Req :
            LET q == req'[r]
            IN  /\ (Suspended(q) \/ (q.pc = "dropped" /\ q.outcome = "none"))
                       => /\ q.saves = 0
                          /\ q.saved = NoneV
                          /\ q.item.id = q.seen
                          /\ (q.reads = 1 => ~q.item.changed)
                /\ q.saves > 0 => q.outcome = "RefreshSucceeded"
       /\ clientCookie' # clientCookie
              => \E r \in Req : /\ Responds(r)
                                /\ req[r].item.changed
                                /\ clientCookie' = req[r].item.id]_vars

C8_Witness ==
    \E r \in Req :
        /\ req[r].pc = "dropped"
        /\ req[r].outcome = "none"
        /\ req[r].calls = <<"root", "discord">>
        /\ req[r].answers = <<TRUE>>
        /\ req[r].ids.val.root # req[r].decoded.val.root
        /\ clientCookie = req[r].seen

\* C9: the login-required extractor yields the identity exactly when the
\* identity-read returned Some, and fails with NotAuthenticated whenever it
\* returned None (no cookie, decode failure, refresh failure).
C9_RequiredExtractor ==
    \A r \in Req :
        LET q == req[r]
        IN  (q.kind = "required" /\ ~q.fault)
                => /\ q.extracted.some <=> Completed(q)
                   /\ Completed(q)
                         => /\ q.reads = 1
                            /\ q.ret.some => q.extracted.val = Ok(q.ret.val)
                            /\ ~q.ret.some
                                  => /\ q.extracted.val = Err("NotAuthenticated")
                                     /\ q.outcome \in {"NoCookie", "DecodeFailed", "RefreshFailed"}

C9_Witness ==
    \E r \in Req :
        /\ req[r].kind = "required"
        /\ req[r].outcome = "RefreshFailed"
        /\ req[r].extracted = SomeV(Err("NotAuthenticated"))
        /\ req[r].pc = "done"

\* C10: when the transport identity cannot be read, either extractor fails
\* with an InternalServerError (not NotAuthenticated, not an absent session)
\* and Identity::identity is not run.
C10_TransportFaultIsISE ==
    \A r \in Req :
        LET q == req[r]
        IN  /\ q.fault
               => /\ q.extracted = SomeV(Err("InternalServerError"))
                  /\ q.reads = 0
                  /\ q.outcome = "none"
                  /\ q.ret = NoneV
                  /\ ~q.item.changed
                  /\ q.pc \in {"respond", "done"}
            /\ (q.extracted.some /\ q.extracted.val = Err("InternalServerError")) => q.fault

C10_Witness ==
    \E r \in Req :
        /\ req[r].fault
        /\ req[r].kind = "required"
        /\ req[r].item.id.some
        /\ from_str(req[r].item.id.val).ok
        /\ req[r].pc = "done"
        /\ clientCookie = req[r].item.id

\* C11 (as claimed): every request whose extractor succeeded has run the
\* identity-read exactly once by the time its response leaves.
C11_Original ==
    \A r \in Req :
        (req[r].pc = "done" /\ ~req[r].fault) => req[r].reads = 1

\* C11 (amended): the login-required extractor runs the identity-read exactly
\* once; the optional extractor runs it not at all, and after it every call
\* of identity() or get_rcos_username() by the handler runs it once more, so
\* a request runs it as many times as the handler calls (zero, one,
\* several); an extractor that fails on the transport identity runs it never.
C11_ReadsPerRequest ==
    \A r \in Req :
        LET q == req[r]
        IN  /\ (q.kind = "required" /\ ~q.fault) => (q.reads = 1 /\ q.ncalls = 0)
            /\ q.kind = "optional" => q.reads = q.ncalls
            /\ q.fault => q.reads = 0

C11_Witness ==
    \E r \in Req :
        /\ req[r].kind = "optional"
        /\ req[r].pc = "done"
        /\ req[r].reads = 2
        /\ req[r].caller = "username"
        /\ req[r].outcome = "RefreshSucceeded"

\* The root's provider is not also in its secondary slot.
NoDuplicate(x) ==
    /\ x.root.tag = "GitHub" => ~x.github.some
    /\ x.root.tag = "Discord" => ~x.discord.some

\* The AuthenticatedIdentities values a cookie c deserializes to.
Decodings(c) ==
    IF c.some /\ from_str(c.val).ok THEN {from_str(c.val).val} ELSE {}

\* Every AuthenticatedIdentities value that exists: in the client's cookie,
\* in a request's cookie, decoded, being refreshed, returned, saved.
Identities ==
    Decodings(clientCookie)
    \cup UNION {Decodings(req[r].item.id) : r \in Req}
    \cup UNION {{f.val : f \in {g \in {req[r].decoded, req[r].ids, req[r].ret, req[r].saved} : g.some}}
                : r \in Req}

Precedence(x, p, s, got) ==
    /\ got \in {NoneV} \cup {SomeV(x.root.val)} \cup {s}
    /\ x.root.tag = p => got = SomeV(x.root.val)
    /\ (x.root.tag # p /\ s.some) => got = s
    /\ (x.root.tag # p /\ ~s.some) => got = NoneV

\* C13: on every identity an identity-read returns, get_github and
\* get_discord give the root's credential when the root is of that provider,
\* otherwise that provider's secondary slot, otherwise None.
C13_ProviderPrecedence ==
    \A r \in Req :
        req[r].ret.some
            => LET x == req[r].ret.val
               IN  /\ Precedence(x, "GitHub", x.github, get_github(x))
                   /\ Precedence(x, "Discord", x.discord, get_discord(x))

C13_Witness ==
    \E r \in Req :
        /\ req[r].ret.some
        /\ req[r].ret.val.root.tag = "Discord"
        /\ req[r].ret.val.root.val # T1
        /\ req[r].ret.val.discord.some
        /\ req[r].ret.val.github = SomeV(GitHubIdentity("ghB"))
        /\ get_github(req[r].ret.val) = SomeV(GitHubIdentity("ghB"))
        /\ get_discord(req[r].ret.val) = SomeV(req[r].ret.val.root.val)


\* C14: serializing never fails and deserializing the result gives the value
\* back: for every AuthenticatedIdentities value that exists (each root
\* variant with each combination of secondary slots), from_str(to_string(x))
\* is Ok(x), and the identity item written by save deserializes to the value
\* that was saved.
C14_RoundTrip ==
    /\ \A x \in Identities \cup InitIdentities :
          /\ DOMAIN to_string(x) = {"root", "github", "discord"}
          /\ from_str(to_string(x)) = Ok(x)
    /\ \A r \in Req :
          req[r].saved.some
              => /\ req[r].item.id.some
                 /\ from_str(req[r].item.id.val) = Ok(req[r].saved.val)

C14_Witness ==
    \E r \in Req :
        /\ req[r].saved.some
        /\ req[r].saved.val.root.tag = "GitHub"
        /\ req[r].saved.val.github.some
        /\ req[r].saved.val.discord.some
        /\ req[r].saved.val.discord.val # T2
        /\ from_str(req[r].item.id.val) = Ok(req[r].saved.val)


\* A GitHub root and no secondary Discord identity.
GitHubOnly(x) == x.root.tag = "GitHub" /\ ~x.discord.some

\* C15: refreshing an identity with a GitHub root and no secondary Discord
\* identity never suspends, never asks the token endpoint, succeeds and gives
\* the value it was given; a further identity-read in the same request gives
\* that value again.
C15_GitHubOnlyRefreshIsNoOp ==
    [][\A r \in Req :
         LET q == req'[r]
         IN  /\ (q.decoded.some /\ GitHubOnly(q.decoded.val))
                   => /\ q.calls = << >>
                      /\ ~Suspended(q)
                      /\ q.outcome = "RefreshSucceeded"
                      /\ q.ret = q.decoded
                      /\ q.saved = q.decoded
             /\ (/\ req[r].ret.some
                 /\ GitHubOnly(req[r].ret.val)
                 /\ q.reads = req[r].reads + 1)
                   => q.ret = req[r].ret]_vars

C15_Witness ==
    \E r \in Req :
        /\ req[r].reads = 2
        /\ req[r].ncalls = 2
        /\ req[r].ret.some
        /\ GitHubOnly(req[r].ret.val)
        /\ req[r].ret.val.github.some
        /\ req[r].calls = << >>
        /\ now = MaxTime


\* An identity-read begins in request r in this step: the required
\* extractor's on arrival, or one a handler asks for.
Starts(r) ==
    \/ req[r].pc = "handler" /\ req'[r].reads = req[r].reads + 1
    \/ /\ req[r].pc \in {"idle", "done", "dropped"}
       /\ req'[r].pc \notin {"idle", "done", "dropped"}
       /\ req'[r].reads = 1

\* The root's exchange is answered with a new credential in this step.
RootAccepted(r) ==
    /\ req[r].pc = "await_root"
    /\ req'[r].pc \notin {"await_root", "dropped"}
    /\ req'[r].answers = <<TRUE>>

\* The expiry of Discord credential d is in the past.
PastExpiry(d) == d.expiration < now

\* slot occurs exactly once in the sequence of exchanges
CalledOnce(calls, slot) ==
    \E i \in DOMAIN calls :
        calls[i] = slot /\ \A j \in DOMAIN calls : calls[j] = slot => j = i

\* new has a strictly later expiry and another access token than old
Renewed(old, new) ==
    /\ new.expiration > old.expiration
    /\ new.access_token # old.access_token

\* C16: when the cookie's Discord root has its expiry in the past, the refresh
\* asks the token endpoint for it at once; when the secondary Discord identity
\* has its expiry in the past as the root is settled, the refresh asks the
\* endpoint for it next; and when the endpoint accepted what it was asked, each
\* such credential was exchanged exactly once and the returned identity holds
\* in that slot a credential with a strictly later expiry and a different
\* access token.
C16_ExpiredDiscordIsRefreshedOnce ==
    [][\A r \in Req :
         LET q == req'[r]
             x == q.decoded.val
             rootDue == x.root.tag = "Discord" /\ PastExpiry(x.root.val)
             discordDue == x.discord.some /\ PastExpiry(x.discord.val)
         IN  /\ (Starts(r) /\ q.decoded.some /\ rootDue)
                   => q.pc = "await_root" /\ q.calls = <<"root">>
             /\ (Starts(r) /\ q.decoded.some /\ ~rootDue /\ discordDue)
                   => q.pc = "await_discord" /\ q.calls = <<"discord">>
             /\ (RootAccepted(r) /\ discordDue)
                   => q.pc = "await_discord" /\ q.calls = <<"root", "discord">>
             /\ q.outcome = "RefreshSucceeded"
                   => /\ \A i \in DOMAIN q.calls : CalledOnce(q.calls, q.calls[i])
                      /\ (\E i \in DOMAIN q.calls : q.calls[i] = "root")
                            => Renewed(x.root.val, q.ret.val.root.val)
                      /\ (\E i \in DOMAIN q.calls : q.calls[i] = "discord")
                            => Renewed(x.discord.val, q.ret.val.discord.val)]_vars

C16_Witness ==
    \E r \in Req :
        /\ req[r].outcome = "RefreshSucceeded"
        /\ req[r].decoded = SomeV(make_authenticated_cookie(RootDiscord(T1)))
        /\ req[r].calls = <<"root">>
        /\ req[r].ret.val.root.val.access_token # T1.access_token
        /\ req[r].ret.val.root.val.expiration > T1.expiration


\* slot does not occur in the sequence of exchanges
NotCalled(calls, slot) == \A i \in DOMAIN calls : calls[i] # slot

\* C17: a Discord credential whose expiry is not in the past when its
\* refresh is reached is not exchanged, and a refresh that succeeds returns
\* every credential it did not exchange as it was: same access token, same
\* refresh token, same expiry.
C17_UnexpiredDiscordUnchanged ==
    [][\A r \in Req :
         LET q == req'[r]
             x == q.decoded.val
             rootDue == x.root.tag = "Discord" /\ PastExpiry(x.root.val)
         IN  /\ (Starts(r) /\ q.decoded.some /\ ~rootDue)
                   => q.pc # "await_root" /\ NotCalled(q.calls, "root")
             /\ (/\ \/ Starts(r) /\ q.decoded.some /\ ~rootDue
                    \/ RootAccepted(r)
                 /\ x.discord.some
                 /\ ~PastExpiry(x.discord.val))
                   => /\ NotCalled(q.calls, "discord")
                      /\ q.outcome = "RefreshSucceeded"
                      /\ q.ret.val.discord = x.discord
             /\ q.outcome = "RefreshSucceeded"
                   => /\ NotCalled(q.calls, "root") => q.ret.val.root = x.root
                      /\ NotCalled(q.calls, "discord") => q.ret.val.discord = x.discord
                      /\ q.ret.val.github = x.github]_vars

C17_Witness ==
    \E r \in Req :
        /\ req[r].outcome = "RefreshSucceeded"
        /\ req[r].decoded.val.root.tag = "Discord"
        /\ req[r].decoded.val.root.val # T1
        /\ req[r].decoded.val.discord = SomeV(T2)
        /\ req[r].calls = << >>
        /\ req[r].ret = req[r].decoded
        /\ now = 1


\* The Discord credentials held in identity x, root or secondary.
DiscordCredentials(x) ==
    (IF x.root.tag = "Discord" THEN {x.root.val} ELSE {})
    \cup (IF x.discord.some THEN {x.discord.val} ELSE {})

\* C18: every Discord credential held anywhere, as root or as secondary, in a
\* cookie or in a value being refreshed, returned or saved, is one of the
\* (access token, refresh token, expiry) triples the provider issued, whole:
\* no credential has fields of two triples, and its expiry is the one issued
\* with its access token.
C18_TripleReplacedWhole ==
    \A x \in Identities :
        \A d \in DiscordCredentials(x) :
            /\ d \in issued
            /\ \A e \in issued : e.access_token = d.access_token
                                    => e.expiration = d.expiration

C18_Witness ==
    \E r \in Req :
        /\ req[r].outcome = "RefreshSucceeded"
        /\ req[r].calls = <<"root", "discord">>
        /\ req[r].ret.val.root.val \in issued \ {T1, T2}
        /\ req[r].ret.val.discord.val \in issued \ {T1, T2}
        /\ req[r].ret.val.root.val # req[r].ret.val.discord.val
        /\ clientCookie = SomeV(to_string(req[r].ret.val))


\* Within the identity-read of q: each credential is exchanged at most once,
\* and a rejected exchange is the last one.
NoRetryInRead(q) ==
    /\ \A i \in DOMAIN q.calls : CalledOnce(q.calls, q.calls[i])
    /\ \A i \in DOMAIN q.answers :
          ~q.answers[i] => /\ i = Len(q.calls)
                           /\ q.outcome = "RefreshFailed"

C20_RefreshIsSequential ==
    \A r \in Req :
        LET q == req[r]
            inFlight == Len(q.calls) - Len(q.answers)
        IN  /\ inFlight \in {0, 1}
            /\ Suspended(q) => inFlight = 1
            /\ q.calls \in {<< >>, <<"root">>, <<"discord">>, <<"root", "discord">>}
            /\ q.calls = <<"root", "discord">>
                  => /\ Len(q.answers) >= 1
                     /\ q.answers[1]
            /\ (q.pc = "await_discord" /\ q.calls = <<"root", "discord">>)
                  => /\ q.ids.val.root.val # q.decoded.val.root.val
                     /\ q.ids.val.root.val \in issued
            /\ q.pc = "await_root" => q.calls = <<"root">>

C20_Witness ==
    \E r \in Req :
        /\ req[r].pc = "await_discord"
        /\ req[r].calls = <<"root", "discord">>
        /\ req[r].answers = <<TRUE>>
        /\ req[r].ids.val.root.val \in issued \ {T1, T2}
        /\ req[r].ids.val.discord = SomeV(T2)


\* Both requests bore the same cookie, exchanged its expired Discord root,
\* were answered with a new credential each, saved and responded.
BothRefreshed ==
    /\ \A r \in Req : /\ req[r].pc = "done"
                      /\ req[r].outcome = "RefreshSucceeded"
                      /\ req[r].calls = <<"root">>
    /\ req["r1"].decoded = req["r2"].decoded

\* The request whose exchange the endpoint answered last: the endpoint numbers
\* the credentials it issues in the order it issues them.
RefreshedLast ==
    CHOOSE r \in Req :
        \A s \in Req : req[s].ret.val.root.val.access_token
                          <= req[r].ret.val.root.val.access_token

StaleCookie == clientCookie.some /\ attrs.key # cookie_key

\* C22: the cookie key changes only when the process restarts, never while a
\* request is being served; and an identity-read of a request whose client
\* holds a cookie sealed before the restart finds no identity: it returns
\* None without decoding anything.
C22_RestartInvalidatesCookies ==
    [][/\ cookie_key' # cookie_key
            => /\ cookie_key' \notin 0..cookie_key
               /\ \A r \in Req : req'[r].pc \in {"idle", "done", "dropped"}
       /\ (\E r \in Req : req'[r].pc \notin {"idle", "done", "dropped"})
            => cookie_key' = cookie_key
       /\ \A r \in Req :
            (Starts(r) /\ StaleCookie)
                => /\ req'[r].seen = NoneV
                   /\ req'[r].outcome = "NoCookie"
                   /\ req'[r].ret = NoneV
                   /\ req'[r].decodes = 0]_vars

C22_Witness ==
    \E r \in Req :
        /\ cookie_key = 1
        /\ StaleCookie
        /\ now < attrs.expires
        /\ from_str(clientCookie.val).ok
        /\ req[r].kind = "required"
        /\ req[r].reads = 1
        /\ req[r].outcome = "NoCookie"
        /\ req[r].extracted = SomeV(Err("NotAuthenticated"))
        /\ req[r].pc = "done"


\* A request arrives in slot r in this step.
Arrives(r) ==
    /\ req[r].pc \in {"idle", "done", "dropped"}
    /\ req'[r].pc \notin {"idle", "done", "dropped"}

\* The identity item the arriving request was given.
Loaded(q) == IF q.reads = 1 THEN q.seen ELSE q.item.id

\* C23 as claimed: the response of a request that bore the cookie and saved
\* it again leaves the time at which the cookie expires where it was.
C23_Original ==
    [][\A r \in Req :
         (/\ Responds(r)
          /\ req[r].saves > 0
          /\ req[r].seen.some
          /\ req[r].item.changed)
             => attrs'.expires = attrs.expires]_vars

\* C23: the cookie expires MaxAge after the response that last wrote it: a
\* response that carries a saved identity sets the expiry to MaxAge from now,
\* whatever it was; a response of a request that changed nothing leaves it;
\* and a request arriving when the expiry has passed is given no identity.
C23_SaveRestartsMaxAge ==
    [][\A r \in Req :
         /\ Responds(r)
              => attrs' = IF ~req[r].item.changed THEN attrs
                          ELSE IF req[r].item.id.some
                               THEN [key |-> cookie_key, expires |-> now + MaxAge]
                               ELSE NoAttrs
         /\ (Arrives(r) /\ attrs.expires <= now) => Loaded(req'[r]) = NoneV
         /\ (Arrives(r) /\ now < attrs.expires /\ attrs.key = cookie_key)
              => Loaded(req'[r]) = clientCookie]_vars

\* A cookie first written at time 0 is still accepted when MaxAge has passed.
C23_Witness ==
    \E r \in Req :
        /\ now >= MaxAge
        /\ req[r].pc = "done"
        /\ req[r].reads = 1
        /\ req[r].seen.some
        /\ req[r].outcome = "RefreshSucceeded"
        /\ req[r].calls = << >>
        /\ attrs.expires = now + MaxAge


\* The username lookup of request r is answered in this step.
UsernameAnswered(r) ==
    req[r].pc = "await_username" /\ req'[r].pc = "handler"

\* C24: the username lookup is made with the root credential of the identity
\* just read and its answer, value or error, is the result; the secondary
\* GitHub and Discord identities are not asked, whatever they hold.
C24_UsernameFromRoot ==
    [][\A r \in Req :
         /\ req'[r].pc = "await_username"
              => req'[r].asked = SomeV(req'[r].ret.val.root)
         /\ UsernameAnswered(r)
              => /\ req'[r].username.val \in UsernameAnswers(req[r].ret.val.root)
                 /\ (req'[r].username.val.ok /\ req'[r].username.val.val.some)
                       => req'[r].username.val.val.val = RcosUsername(req[r].ret.val.root)]_vars

C24_Witness ==
    \E r \in Req :
        /\ req[r].pc = "handler"
        /\ req[r].caller = "username"
        /\ req[r].ret.some
        /\ req[r].ret.val.root.tag = "Discord"
        /\ req[r].ret.val.github.some
        /\ req[r].ret.val.discord.some
        /\ req[r].username = SomeV(Ok(SomeV(RcosUsername(req[r].ret.val.root))))


\* An identity-read of request r returns in this step.
ReadEnds(r) ==
    /\ Starts(r) \/ Suspended(req[r])
    /\ Completed(req'[r])

\* C25: Identity::get_rcos_username gives Ok(None) without any lookup when
\* its identity-read returned None (no cookie, decode failure, refresh
\* failure); when the read returned Some it awaits the lookup and returns
\* what the lookup answered, an error as an error.
C25_UsernameOrError ==
    [][\A r \in Req :
         LET q == req'[r]
         IN  /\ (ReadEnds(r) /\ q.caller = "username" /\ ~q.ret.some)
                   => /\ q.outcome \in {"NoCookie", "DecodeFailed", "RefreshFailed"}
                      /\ q.username = SomeV(Ok(NoneV))
                      /\ q.lookup = NoneV
                      /\ q.pc = "handler"
             /\ (ReadEnds(r) /\ q.caller = "username" /\ q.ret.some)
                   => q.pc = "await_username"
             /\ UsernameAnswered(r)
                   => /\ req[r].ret.some
                      /\ q.username = q.lookup
                      /\ ~q.lookup.val.ok => q.username = SomeV(Err("ProviderError"))]_vars

C25_Witness ==
    \E r \in Req :
        /\ req[r].pc = "handler"
        /\ req[r].caller = "username"
        /\ req[r].ret.some
        /\ req[r].lookup = SomeV(Err("ProviderError"))
        /\ req[r].username = SomeV(Err("ProviderError"))


\* The variants status_code has an arm of its own for.
MappedErrors ==
    {"BadRequest", "ResourceNotFound", "PageNotFound", "NotImplemented",
     "CsrfTokenNotFound", "CsrfTokenMismatch", "InvalidForm", "NotAuthenticated"}

\* C26: the response to an error carries status 401 for NotAuthenticated, 500
\* for InternalServerError, 500 for every variant that status_code has no arm
\* of its own for, and a 4xx or 501 code for the others; a request that ended
\* in an error always has such a status.
C26_StatusOfError ==
    \A r \in Req :
        LET q == req[r]
        IN  /\ (q.pc = "done" /\ q.extracted.some /\ ~q.extracted.val.ok) => q.status.some
            /\ q.status.some
                 => LET e == q.extracted.val.err
                    IN  /\ e \in TelescopeErrors
                        /\ e = "NotAuthenticated" => q.status.val = 401
                        /\ e = "InternalServerError" => q.status.val = 500
                        /\ e \notin MappedErrors => q.status.val = 500
                        /\ e \in MappedErrors => q.status.val \in {400, 401, 404, 501}

C26_Witness ==
    \E r \in Req :
        /\ req[r].pc = "done"
        /\ req[r].kind = "required"
        /\ req[r].outcome = "DecodeFailed"
        /\ req[r].extracted = SomeV(Err("NotAuthenticated"))
        /\ req[r].status = SomeV(401)


\* The request that was served in slot r ended with a failed refresh and
\* left the cookie it bore as it was.
EndedRefreshFailed(q) ==
    /\ q.pc = "done"
    /\ q.outcome = "RefreshFailed"
    /\ ~q.item.changed

\* C27: after a request whose identity-read ended in RefreshFailed the client
\* still holds the cookie that request bore; until that cookie expires the
\* next request is given it again, and an identity-read of that request
\* decodes it to the same identity, refreshes it and asks the token endpoint
\* again.  Once the cookie has expired the next request is given none.
C27_FailedCookieIsRetried ==
    [][\A r \in Req :
         (Arrives(r) /\ EndedRefreshFailed(req[r]))
            => LET q == req'[r]
               IN  /\ clientCookie = req[r].seen
                   /\ clientCookie' = clientCookie
                   /\ now < attrs.expires
                        => /\ Loaded(q) = req[r].seen
                           /\ q.reads = 1
                                => /\ q.decodes = 1
                                   /\ q.decoded = req[r].decoded
                                   /\ q.refreshes = 1
                                   /\ q.calls # << >>
                                   /\ q.forgets = 0
                   /\ attrs.expires <= now => Loaded(q) = NoneV]_vars

C27_Witness ==
    \E r \in Req :
        /\ EndedRefreshFailed(req[r])
        /\ req[r].kind = "required"
        /\ req[r].calls = <<"root">>
        /\ req[r].answers = <<FALSE>>
        /\ clientCookie = req[r].seen
        /\ now = attrs.expires - 1
        /\ attrs.expires = MaxAge


\* C28: an identity-read on a cookie with a GitHub root and no Discord
\* credential ends at once with Some of the identity read, asks the token
\* endpoint nothing, and its one cookie side effect is a save of that same
\* identity: the identity item afterwards is the encoding that was read.
C28_GitHubCookieRewrittenIdentically ==
    \A r \in Req :
        LET q == req[r]
        IN  (q.decoded.some /\ GitHubOnly(q.decoded.val))
                => /\ Completed(q)
                   /\ q.ret = q.decoded
                   /\ q.calls = << >>
                   /\ q.saves = 1
                   /\ q.forgets = 0
                   /\ q.item.id = q.seen
                   /\ q.item.id = SomeV(to_string(q.decoded.val))
                   /\ q.pc = "done" => clientCookie = q.seen

C28_Witness ==
    \E r \in Req :
        /\ req[r].pc = "done"
        /\ req[r].kind = "required"
        /\ req[r].seen = SomeV(to_string(make_authenticated_cookie(RootGitHub(GitHubIdentity("ghA")))))
        /\ req[r].extracted.val.ok
        /\ req[r].item.changed
        /\ clientCookie = req[r].seen
        /\ now > 0


\* C29: an identity-read has at most one cookie side effect, and none before
\* it returns; it saves exactly when it returns Some, it forgets exactly when
\* decoding failed, and a None from NoCookie or RefreshFailed leaves the
\* identity item as it found it.
C29_OneCookieSideEffect ==
    \A r \in Req :
        LET q == req[r]
        IN  /\ q.saves + q.forgets <= 1
            /\ ~Completed(q) => q.saves = 0 /\ q.forgets = 0
            /\ Completed(q)
                 => /\ q.saves = 1 <=> q.ret.some
                    /\ q.forgets = 1 <=> q.outcome = "DecodeFailed"
                    /\ q.outcome \in {"NoCookie", "RefreshFailed"}
                          => /\ q.saves = 0
                             /\ q.forgets = 0
                             /\ ~q.ret.some
                             /\ q.item.id = q.seen

C29_Witness ==
    \E r \in Req :
        /\ req[r].reads = 2
        /\ req[r].outcome = "NoCookie"
        /\ req[r].item = [id |-> NoneV, changed |-> TRUE]
        /\ req[r].saves = 0
        /\ req[r].forgets = 0


\* Every Discord credential held in an identity that exists.
HeldCredentials == UNION {DiscordCredentials(x) : x \in Identities}

\* C30: when the endpoint answers the root's exchange with a new credential
\* and then rejects the secondary's, the identity-read returns None, saves
\* nothing and leaves the identity item as it found it, with the root it had
\* before; the credential issued for the root is held nowhere afterwards.
C30_RefreshedRootDiscarded ==
    [][\A r \in Req :
         (/\ req[r].pc = "await_discord"
          /\ req[r].calls = <<"root", "discord">>
          /\ req'[r].answers = <<TRUE, FALSE>>)
            => LET q == req'[r]
                   new == req[r].ids.val.root.val
               IN  /\ q.outcome = "RefreshFailed"
                   /\ q.ret = NoneV
                   /\ q.saves = 0
                   /\ q.item.id = q.seen
                   /\ from_str(q.item.id.val).val.root = q.decoded.val.root
                   /\ new # q.decoded.val.root.val
                   /\ new \in issued'
                   /\ new \notin HeldCredentials']_vars

C30_Witness ==
    \E r \in Req :
        /\ req[r].calls = <<"root", "discord">>
        /\ req[r].answers = <<TRUE, FALSE>>
        /\ req[r].outcome = "RefreshFailed"
        /\ req[r].pc = "done"
        /\ clientCookie = req[r].seen
        /\ \E d \in issued : d \notin {T1, T2} /\ d \notin HeldCredentials


\* C31: an identity-read that begins with the cookie the previous read of the
\* same process saved (the previous read ended in RefreshSucceeded, and this
\* one, in the same request or in the client's next one, is handed that
\* cookie) decodes it: it does not end in DecodeFailed and does not forget.
C31_SavedCookieDecodes ==
    [][\A r \in Req :
         (/\ Starts(r)
          /\ req[r].outcome = "RefreshSucceeded"
          /\ req[r].item.id.some
          /\ req'[r].seen = req[r].item.id)
            => /\ req'[r].decodes = 1
               /\ req'[r].decoded = req[r].saved
               /\ req'[r].outcome # "DecodeFailed"
               /\ req'[r].forgets = 0]_vars

C31_Witness ==
    \E r \in Req :
        /\ req[r].reads = 2
        /\ req[r].seen.some
        /\ req[r].seen # clientCookie
        /\ req[r].decodes = 1
        /\ req[r].forgets = 0
        /\ req[r].outcome = "RefreshSucceeded"


\* Identities x and y have the same shape: the same root variant, the same
\* secondary GitHub identity, and a secondary Discord identity in both or in
\* neither.
SameShape(x, y) ==
    /\ y.root.tag = x.root.tag
    /\ y.github = x.github
    /\ y.discord.some = x.discord.some

\* C32: the value AuthenticatedIdentities::refresh owns keeps the shape of the
\* value it was called with while the refresh runs, and so does the value a
\* successful refresh returns: the root keeps its provider variant, the
\* secondary GitHub identity is unchanged, and the secondary Discord identity
\* is present after the refresh exactly if it was present before.
C32_RefreshPreservesShape ==
    \A r \in Req :
        /\ req[r].ids.some => SameShape(req[r].decoded.val, req[r].ids.val)
        /\ req[r].outcome = "RefreshSucceeded"
              => /\ req[r].ret.some
                 /\ SameShape(req[r].decoded.val, req[r].ret.val)
                 /\ SameShape(req[r].decoded.val, req[r].saved.val)

C32_Witness ==
    \E r \in Req :
        /\ req[r].outcome = "RefreshSucceeded"
        /\ req[r].calls = <<"root", "discord">>
        /\ req[r].decoded.val.github.some
        /\ req[r].ret.val.root # req[r].decoded.val.root
        /\ req[r].ret.val.discord # req[r].decoded.val.discord
        /\ SameShape(req[r].decoded.val, req[r].ret.val)


\* How far an identity-read has come.
Stage(q) ==
    CASE q.pc = "await_root" -> 1
      [] q.pc = "await_discord" -> 2
      [] OTHER -> IF q.outcome = "none" THEN 0 ELSE 3

Outcomes == {"NoCookie", "DecodeFailed", "RefreshFailed", "RefreshSucceeded"}

\* C33: when every exchange an identity-read waits for is answered, the read
\* ends: from each suspension it reaches a terminal outcome.  A read is
\* either suspended or ended from the step that starts it; each step of a
\* suspended read takes it to a later stage (root exchange, secondary
\* exchange, ended), so no stage is entered twice; the outcome is one of
\* NoCookie, DecodeFailed, RefreshFailed, RefreshSucceeded and stays what it
\* is until the next read starts.
C33_ReadTerminates ==
    /\ \A r \in Req : Suspended(req[r]) ~> Completed(req[r])
    /\ [][\A r \in Req :
            /\ Starts(r) => Stage(req'[r]) > 0
            /\ (Suspended(req[r]) /\ req'[r] # req[r])
                  => /\ req'[r].reads = req[r].reads
                     /\ Stage(req'[r]) > Stage(req[r])
            /\ Completed(req'[r])
                  => /\ req'[r].outcome \in Outcomes
                     /\ ~Suspended(req'[r])
            /\ (Completed(req[r]) /\ ~Starts(r) /\ ~Arrives(r))
                  => req'[r].outcome = req[r].outcome]_vars

C33_Witness ==
    \E r \in Req :
        /\ req[r].calls = <<"root", "discord">>
        /\ req[r].answers = <<TRUE, TRUE>>
        /\ req[r].outcome = "RefreshSucceeded"
        /\ req[r].reads = 2


\* The handler of the meeting-edit service returned Err(kind).
Failed(kind) ==
    /\ edit.result.some
    /\ ~edit.result.val.ok
    /\ edit.result.val.err = kind

\* No form was made, no mutation called and the meeting is as it was when
\* the handler began.
NothingDone ==
    /\ ~edit.form.some
    /\ ~edit.variables.some
    /\ meeting = edit.before

\* C34: in the meeting-edit service the edit mutation is called, and the
\* meeting changes, only in a request in which Meeting::get found the meeting
\* and the viewer's authorization allowed editing it.  When the meeting is
\* not found the handler returns ResourceNotFound, and when the authorization
\* does not allow the edit it returns Forbidden, in both cases before the
\* form template is made and without calling the mutation; these two errors
\* have no other cause.
C34_EditOnlyWhenFoundAndAllowed ==
    /\ (edit.variables.some \/ (edit.pc # "idle" /\ meeting # edit.before))
          => /\ edit.found = SomeV(TRUE)
             /\ edit.can_edit = SomeV(TRUE)
    /\ edit.form.some
          => /\ edit.found = SomeV(TRUE)
             /\ edit.can_edit = SomeV(TRUE)
    /\ edit.found = SomeV(FALSE)
          => /\ Failed("ResourceNotFound")
             /\ ~edit.can_edit.some
             /\ NothingDone
    /\ edit.can_edit = SomeV(FALSE)
          => /\ Failed("Forbidden")
             /\ NothingDone
    /\ Failed("ResourceNotFound") => edit.found = SomeV(FALSE)
    /\ Failed("Forbidden") => edit.can_edit = SomeV(FALSE)

C34_Witness ==
    /\ edit.route = "submit_meeting_edits"
    /\ meeting \notin InitMeetings
    /\ edit.found = SomeV(TRUE)
    /\ Failed("Forbidden")
    /\ NothingDone


\* The validation issues of a submitted form f, as the claim lists them.
Parses(f) == time_parse(f.start_time).ok /\ time_parse(f.end_time).ok

EndDateBeforeStartDate(f) == f.end_date < f.start_date

OutsideSemester(f) ==
    \E d \in {f.start_date, f.end_date} :
        \/ d < get_semester_bounds(f.semester).start
        \/ d > get_semester_bounds(f.semester).end

StartAfterEnd(f) ==
    /\ Parses(f)
    /\ Later_than(and_time(f.start_date, time_parse(f.start_time).val),
                  and_time(f.end_date, time_parse(f.end_time).val))

HasIssue(f) == EndDateBeforeStartDate(f) \/ OutsideSemester(f) \/ StartAfterEnd(f)

\* submit_meeting_edits has found the form's semester in the context.
Validating ==
    /\ edit.route = "submit_meeting_edits"
    /\ edit.selected_semester.some

\* C35 as stated: a submitted form with a validation issue gets InvalidForm.
C35_Original ==
    (Validating /\ edit.pc = "done" /\ HasIssue(edit.form_data.val))
        => Failed("InvalidForm")

\* C35: submit_meeting_edits calls the edit mutation only for a form without
\* a validation issue.  For a form whose end date is before its start date,
\* whose dates are not both within the selected semester, or whose start is
\* after its end, the mutation is not called and the meeting stays as it
\* was; the handler returns InvalidForm when both times parse and the form
\* page renders, BadRequest when a time does not parse, and the rendering
\* error otherwise.  InvalidForm is returned for no other form, and the
\* redirect only after the mutation has answered and changed the meeting.
C35_MutationOnlyForValidForm ==
    /\ edit.variables.some
          => /\ Validating
             /\ Parses(edit.form_data.val)
             /\ ~HasIssue(edit.form_data.val)
    /\ (Validating /\ HasIssue(edit.form_data.val))
          => /\ ~edit.variables.some
             /\ meeting = edit.before
             /\ edit.pc \in {"in_page", "done"}
             /\ edit.pc = "done"
                   => \/ Failed("InvalidForm")
                      \/ Failed("RenderingError")
                      \/ Failed("BadRequest") /\ ~Parses(edit.form_data.val)
             /\ ~Parses(edit.form_data.val) => Failed("BadRequest")
    /\ Failed("InvalidForm")
          => /\ Validating
             /\ HasIssue(edit.form_data.val)
             /\ edit.form.val.issues # {}
    /\ (edit.result.some /\ edit.result.val.ok /\ edit.route = "submit_meeting_edits")
          => /\ edit.result.val.val.status = "Found"
             /\ edit.variables.some
             /\ meeting = edited(edit.variables.val)

C35_Witness ==
    /\ Validating
    /\ meeting \notin InitMeetings
    /\ EndDateBeforeStartDate(edit.form_data.val)
    /\ ~Parses(edit.form_data.val)
    /\ Failed("BadRequest")
    /\ meeting = edit.before

====
